---------------------------- MODULE Spec2Model ----------------------------
(***************************************************************************)
(* Model of caminhoes.py: per-truck route sequencing (morning stops first, *)
(* then the remaining stops rotated to start next to the hand-off point).  *)
(* Python lists are sequences; Python positions are 0-based, so list[i] is *)
(* written At(list, i).  Node numbers in tours are the Python values       *)
(* 0 .. n-1.  Distances are the haversine values in metres (int(km*1000),  *)
(* the resolution solve_tsp itself uses).                                  *)
(***************************************************************************)
EXTENDS Integers, Sequences, FiniteSets, TLC

\* ----------------------------------------------------------------- bounds
\* number of candidate rows of the CSV file
NumRows == 6
\* number of distinct MOTORISTA values
NumTrucks == 2
\* number of rows of a file that has no TURNO RECEBIMENTO column
MaxPlainRows == 3
\* longest coordinate list handed to the library functions on their own
MaxCoords == 3

\* ------------------------------------------------------------ python lists
At(list, i) == IF i < 0 THEN list[Len(list) + i + 1] ELSE list[i + 1]

InRange(list, i) == i >= 0 - Len(list) /\ i < Len(list)

range(n) == [k \in 1..n |-> k - 1]

\* list.index(v): first position (0-based) holding v
list_index(list, v) == (CHOOSE k \in 1..Len(list) :
                          list[k] = v /\ \A j \in 1..(k - 1) : list[j] # v) - 1

\* min(list) of a non-empty list of numbers
list_min(list) == CHOOSE m \in {list[k] : k \in 1..Len(list)} :
                     \A k \in 1..Len(list) : m <= list[k]

\* all orderings of the elements of a finite set
RECURSIVE Permutations_(_)
Permutations_(S) ==
    IF S = {} THEN {<<>>}
    ELSE UNION {{<<x>> \o p : p \in Permutations_(S \ {x})} : x \in S}

\* --------------------------------------------------------------- strings
\* str.upper(), character by character (letters that occur in the labels)
upper_char(c) ==
    CASE c = "m" -> "M" [] c = "a" -> "A" [] c = "n" -> "N" [] c = "h" -> "H"
      [] c = "d" -> "D" [] c = "i" -> "I" [] c = "u" -> "U" [] c = "r" -> "R"
      [] c = "o" -> "O" [] OTHER -> c

upper(s) == [k \in 1..Len(s) |-> upper_char(s[k])]

RECURSIVE lstrip(_)
lstrip(s) == IF s # <<>> /\ Head(s) = " " THEN lstrip(Tail(s)) ELSE s

RECURSIVE rstrip(_)
rstrip(s) == IF s # <<>> /\ s[Len(s)] = " " THEN rstrip(SubSeq(s, 1, Len(s) - 1)) ELSE s

strip(s) == rstrip(lstrip(s))

\* a cell of the TURNO RECEBIMENTO column: text, a blank cell (pandas NaN,
\* a float), or no such column in the file
Text(chars) == [kind |-> "str", chars |-> chars]
NaN == [kind |-> "nan", chars |-> <<>>]
NoColumn == [kind |-> "absent", chars |-> <<>>]

MANHA == <<"M", "A", "N", "H", "A">>

\* ------------------------------------------------------------- input data
Points == {<<0, 0>>, <<0, 1>>, <<0, 2>>, <<1, 0>>, <<1, 1>>, <<2, 0>>}

\* the rows a CSV file is drawn from (after the cleaning of lines 50-63:
\* text cells carry no outer blanks); rows 2 and 3 are the same delivery twice
CsvRows == <<
    [NOME |-> "P1", LATITUDE |-> 0, LONGITUDE |-> 1, TURNO |-> Text(MANHA)],
    [NOME |-> "R1", LATITUDE |-> 1, LONGITUDE |-> 0, TURNO |-> Text(<<"D", "I", "U", "R", "N", "O">>)],
    [NOME |-> "R1", LATITUDE |-> 1, LONGITUDE |-> 0, TURNO |-> Text(<<"D", "I", "U", "R", "N", "O">>)],
    [NOME |-> "P2", LATITUDE |-> 0, LONGITUDE |-> 2, TURNO |-> Text(<<"m", "a", "n", "h", "a">>)],
    [NOME |-> "R3", LATITUDE |-> 1, LONGITUDE |-> 1,
     TURNO |-> Text(<<"D", "I", "U", "R", "N", "O", " ", "A", "L", "E", "R", "T", "A">>)],
    [NOME |-> "X1", LATITUDE |-> 2, LONGITUDE |-> 0, TURNO |-> NaN],
    [NOME |-> "R2", LATITUDE |-> 2, LONGITUDE |-> 0, TURNO |-> Text(<<"d", "i", "u", "r", "n", "o">>)],
    [NOME |-> "R4", LATITUDE |-> 0, LONGITUDE |-> 1, TURNO |-> Text(<<"D", "I", "U", "R", "N", "O">>)] >>

\* LATITUDE CASA / LONGITUDE CASA of a driver's rows
Casa(t) == IF t % 2 = 1 THEN <<0, 0>> ELSE <<2, 0>>

\* the record of candidate row k when it belongs to driver t
Record(k, t, hasTurno) ==
    [MOTORISTA |-> t, NOME |-> CsvRows[k].NOME,
     LATITUDE |-> CsvRows[k].LATITUDE, LONGITUDE |-> CsvRows[k].LONGITUDE,
     CASA |-> Casa(t),
     TURNO |-> IF hasTurno THEN CsvRows[k].TURNO ELSE NoColumn]

\* the data frame of a file in which row k belongs to driver assign[k]
\* (0: the row is not in the file)
RECURSIVE Frame(_, _, _)
Frame(assign, hasTurno, k) ==
    IF k = 0 THEN <<>>
    ELSE IF assign[k] = 0 THEN Frame(assign, hasTurno, k - 1)
    ELSE Append(Frame(assign, hasTurno, k - 1), Record(k, assign[k], hasTurno))

\* ------------------------------------------------------ haversine_distance
HaversineMetres ==
       <<0, 0>> :> (<<0, 0>> :> 0 @@ <<0, 1>> :> 111194 @@ <<0, 2>> :> 222389 @@ <<1, 0>> :> 111194 @@ <<1, 1>> :> 157249 @@ <<2, 0>> :> 222389) @@
       <<0, 1>> :> (<<0, 0>> :> 111194 @@ <<0, 1>> :> 0 @@ <<0, 2>> :> 111194 @@ <<1, 0>> :> 157249 @@ <<1, 1>> :> 111194 @@ <<2, 0>> :> 248629) @@
       <<0, 2>> :> (<<0, 0>> :> 222389 @@ <<0, 1>> :> 111194 @@ <<0, 2>> :> 0 @@ <<1, 0>> :> 248629 @@ <<1, 1>> :> 157249 @@ <<2, 0>> :> 314474) @@
       <<1, 0>> :> (<<0, 0>> :> 111194 @@ <<0, 1>> :> 157249 @@ <<0, 2>> :> 248629 @@ <<1, 0>> :> 0 @@ <<1, 1>> :> 111177 @@ <<2, 0>> :> 111194) @@
       <<1, 1>> :> (<<0, 0>> :> 157249 @@ <<0, 1>> :> 111194 @@ <<0, 2>> :> 157249 @@ <<1, 0>> :> 111177 @@ <<1, 1>> :> 0 @@ <<2, 0>> :> 157225) @@
       <<2, 0>> :> (<<0, 0>> :> 222389 @@ <<0, 1>> :> 248629 @@ <<0, 2>> :> 314474 @@ <<1, 0>> :> 111194 @@ <<1, 1>> :> 157225 @@ <<2, 0>> :> 0)

haversine_distance(coord1, coord2) == HaversineMetres[coord1][coord2]

build_distance_matrix(coords) ==
    [a \in 1..Len(coords) |->
        [b \in 1..Len(coords) |-> haversine_distance(coords[a], coords[b])]]

\* --------------------------------------------------------------- solve_tsp
\* The routing library decides the tour.  With one vehicle starting and
\* ending at node 0 and every node mandatory, a solution read from Start to
\* End is 0, the other nodes in some order, 0; without a solution the
\* function returns the natural order.
\* variant: the End index appended without IndexToNode (it is size, not 0)
solve_tsp_raw_end(distance_matrix) ==
    LET size == Len(distance_matrix)
    IN  {<<0>> \o p \o <<size>> : p \in Permutations_(1..(size - 1))}
          \cup {range(size)}

solve_tsp(distance_matrix) ==
    LET size == Len(distance_matrix)
    IN  {<<0>> \o p \o <<0>> : p \in Permutations_(1..(size - 1))}
          \cup {range(size)}

\* ---------------------------------------------------- the loop's expressions
\* r.get('TURNO RECEBIMENTO', '')
get_turno(r) == IF r.TURNO.kind = "absent" THEN Text(<<>>) ELSE r.TURNO

\* variant: the comparison without .upper()
is_manha_case_sensitive(r) == strip(get_turno(r).chars) = MANHA

\* ....strip().upper() == 'MANHA'   (defined for text only)
is_manha(r) == upper(strip(get_turno(r).chars)) = MANHA

\* .strip() of a float raises AttributeError
strip_raises(r) == get_turno(r).kind # "str"

coord_of(r) == <<r.LATITUDE, r.LONGITUDE>>

coords_of(stops) == [k \in 1..Len(stops) |-> coord_of(stops[k])]

\* variant: the closing 0 left in place
strip_return_kept(route) == route

\* if route and route[-1] == 0: route = route[:-1]
strip_return(route) ==
    IF route # <<>> /\ At(route, -1) = 0
    THEN SubSeq(route, 1, Len(route) - 1) ELSE route

\* [i for i in route if i > 0]
positive(route) == SelectSeq(route, LAMBDA i : i > 0)

\* variant: the node number used as list position
stop_index_same(i) == i

\* the list position of node i: stops[i-1]
stop_index(i) == i - 1

\* [stops[i-1] for i in route]
map_stops(route, stops) == [k \in 1..Len(route) |-> At(stops, stop_index(route[k]))]

map_in_range(route, stops) ==
    \A k \in 1..Len(route) : InRange(stops, stop_index(route[k]))

\* variant: the last position of the minimum
nearest_last(distances) ==
    (CHOOSE k \in 1..Len(distances) :
        /\ distances[k] = list_min(distances)
        /\ \A j \in (k + 1)..Len(distances) : distances[j] # distances[k]) - 1

\* distances.index(min(distances))
nearest(distances) == list_index(distances, list_min(distances))

\* variant: cycle[nearest_pos:] + cycle[:nearest_pos-1]
rotate_short(cycle, nearest_pos) ==
    SubSeq(cycle, nearest_pos + 1, Len(cycle)) \o SubSeq(cycle, 1, nearest_pos - 1)

\* cycle[nearest_pos:] + cycle[:nearest_pos]
rotate(cycle, nearest_pos) ==
    SubSeq(cycle, nearest_pos + 1, Len(cycle)) \o SubSeq(cycle, 1, nearest_pos)

\* df.groupby('MOTORISTA'): the keys in ascending order, each with its rows
group_keys(frame) ==
    LET keys == {frame[k].MOTORISTA : k \in 1..Len(frame)}
    IN  CHOOSE s \in Permutations_(keys) :
            \A a, b \in 1..Len(s) : a < b => s[a] < s[b]

group_rows(frame, t) == SelectSeq(frame, LAMBDA r : r.MOTORISTA = t)


\* lines 87-88: the two partitions
manha_of(stops) == SelectSeq(stops, is_manha)

\* [r for r in rows if r not in manha]   (dict equality)
diurno_of(stops, priority) ==
    SelectSeq(stops, LAMBDA r : ~ \E k \in 1..Len(priority) : priority[k] = r)

\* ------------------------------------------------------------------ state
VARIABLES df, todo, truck, rows, depot, manha, diurno, ordered_manha,
          last_loc, coords_m, dm, route1, ordered_diurno, coords_d, dd,
          route2, cycle, distances, nearest_pos, rotated, ordered, mapa, pc,
          fn_coords, fn_matrix, fn_raised, fn_route, fn_pc

loop_vars == <<truck, rows, depot, manha, diurno, ordered_manha, last_loc,
               coords_m, dm, route1, ordered_diurno, coords_d, dd, route2,
               cycle, distances, nearest_pos, rotated, ordered>>

fn_vars == <<fn_coords, fn_matrix, fn_raised, fn_route, fn_pc>>

vars == <<df, todo, loop_vars, mapa, pc, fn_vars>>

\* the names of the loop body are unbound until their first assignment
Unbound ==
    /\ truck = 0 /\ rows = <<>> /\ depot = <<0, 0>>
    /\ manha = <<>> /\ diurno = <<>> /\ ordered_manha = <<>>
    /\ last_loc = <<0, 0>> /\ coords_m = <<>> /\ dm = <<>> /\ route1 = <<>>
    /\ ordered_diurno = <<>> /\ coords_d = <<>> /\ dd = <<>> /\ route2 = <<>>
    /\ cycle = <<>> /\ distances = <<>> /\ nearest_pos = 0 /\ rotated = <<>>
    /\ ordered = <<>>

FnIdle ==
    /\ fn_coords = <<>> /\ fn_matrix = <<>> /\ fn_raised = "none"
    /\ fn_route = <<>> /\ fn_pc = "off"

\* lines 49-79: the file is read and cleaned, the groups are formed
Init ==
    /\ \E assign \in [1..NumRows -> 0..NumTrucks], hasTurno \in BOOLEAN :
          /\ \E k \in 1..NumRows : assign[k] # 0
          /\ ~ hasTurno => \A k \in 1..NumRows : k > MaxPlainRows => assign[k] = 0
          /\ df = Frame(assign, hasTurno, NumRows)
    /\ todo = group_keys(df)
    /\ Unbound
    /\ mapa = <<>>
    /\ pc = "loop"
    /\ FnIdle

\* lines 82-84: next group, its rows and its depot
LoopNext ==
    /\ pc = "loop" /\ todo # <<>>
    /\ truck' = Head(todo)
    /\ todo' = Tail(todo)
    /\ rows' = group_rows(df, Head(todo))
    /\ depot' = At(rows', 0).CASA
    /\ pc' = "partition"
    /\ UNCHANGED <<df, manha, diurno, ordered_manha, last_loc, coords_m, dm,
                   route1, ordered_diurno, coords_d, dd, route2, cycle,
                   distances, nearest_pos, rotated, ordered, mapa, fn_vars>>

\* lines 87-88
Partition ==
    /\ pc = "partition"
    /\ IF \E k \in 1..Len(rows) : strip_raises(rows[k])
       THEN /\ pc' = "AttributeError"
            /\ UNCHANGED <<manha, diurno>>
       ELSE /\ manha' = manha_of(rows)
            /\ diurno' = diurno_of(rows, manha')
            /\ pc' = "phaseA"
    /\ UNCHANGED <<df, todo, truck, rows, depot, ordered_manha, last_loc,
                   coords_m, dm, route1, ordered_diurno, coords_d, dd,
                   route2, cycle, distances, nearest_pos, rotated, ordered,
                   mapa, fn_vars>>

\* variant: last_loc keeps the value of the previous iteration
PhaseA_stale_last_loc ==
    /\ pc = "phaseA"
    /\ ordered_manha' = <<>>
    /\ pc' = IF manha # <<>> THEN "solveA" ELSE "phaseB"
    /\ UNCHANGED <<df, todo, truck, rows, depot, manha, diurno, last_loc,
                   coords_m, dm, route1, ordered_diurno, coords_d, dd, route2,
                   cycle, distances, nearest_pos, rotated, ordered, mapa,
                   fn_vars>>

\* lines 91-93
PhaseA ==
    /\ pc = "phaseA"
    /\ ordered_manha' = <<>>
    /\ last_loc' = depot
    /\ pc' = IF manha # <<>> THEN "solveA" ELSE "phaseB"
    /\ UNCHANGED <<df, todo, truck, rows, depot, manha, diurno, coords_m, dm,
                   route1, ordered_diurno, coords_d, dd, route2, cycle,
                   distances, nearest_pos, rotated, ordered, mapa, fn_vars>>

\* lines 94-96
SolveA ==
    /\ pc = "solveA"
    /\ coords_m' = <<depot>> \o coords_of(manha)
    /\ dm' = build_distance_matrix(coords_m')
    /\ route1' \in solve_tsp(dm')
    /\ pc' = "stripA"
    /\ UNCHANGED <<df, todo, truck, rows, depot, manha, diurno, ordered_manha,
                   last_loc, ordered_diurno, coords_d, dd, route2, cycle,
                   distances, nearest_pos, rotated, ordered, mapa, fn_vars>>

\* lines 97-98
StripA ==
    /\ pc = "stripA"
    /\ route1' = strip_return(route1)
    /\ pc' = "mapA"
    /\ UNCHANGED <<df, todo, truck, rows, depot, manha, diurno, ordered_manha,
                   last_loc, coords_m, dm, ordered_diurno, coords_d, dd,
                   route2, cycle, distances, nearest_pos, rotated, ordered,
                   mapa, fn_vars>>

\* line 99
MapA ==
    /\ pc = "mapA"
    /\ IF map_in_range(positive(route1), manha)
       THEN /\ ordered_manha' = map_stops(positive(route1), manha)
            /\ pc' = "handoff"
       ELSE /\ pc' = "IndexError"
            /\ UNCHANGED ordered_manha
    /\ UNCHANGED <<df, todo, truck, rows, depot, manha, diurno, last_loc,
                   coords_m, dm, route1, ordered_diurno, coords_d, dd, route2,
                   cycle, distances, nearest_pos, rotated, ordered, mapa,
                   fn_vars>>

\* line 100
HandOff ==
    /\ pc = "handoff"
    /\ IF route1 # <<>> /\ InRange(coords_m, At(route1, -1))
       THEN /\ last_loc' = At(coords_m, At(route1, -1))
            /\ pc' = "phaseB"
       ELSE /\ pc' = "IndexError"
            /\ UNCHANGED last_loc
    /\ UNCHANGED <<df, todo, truck, rows, depot, manha, diurno, ordered_manha,
                   coords_m, dm, route1, ordered_diurno, coords_d, dd, route2,
                   cycle, distances, nearest_pos, rotated, ordered, mapa,
                   fn_vars>>

\* lines 103-104
PhaseB ==
    /\ pc = "phaseB"
    /\ ordered_diurno' = <<>>
    /\ pc' = IF diurno # <<>> THEN "solveB" ELSE "combine"
    /\ UNCHANGED <<df, todo, truck, rows, depot, manha, diurno, ordered_manha,
                   last_loc, coords_m, dm, route1, coords_d, dd, route2,
                   cycle, distances, nearest_pos, rotated, ordered, mapa,
                   fn_vars>>

\* lines 105-107
SolveB ==
    /\ pc = "solveB"
    /\ coords_d' = <<last_loc>> \o coords_of(diurno)
    /\ dd' = build_distance_matrix(coords_d')
    /\ route2' \in solve_tsp(dd')
    /\ pc' = "stripB"
    /\ UNCHANGED <<df, todo, truck, rows, depot, manha, diurno, ordered_manha,
                   last_loc, coords_m, dm, route1, ordered_diurno, cycle,
                   distances, nearest_pos, rotated, ordered, mapa, fn_vars>>

\* lines 108-109
StripB ==
    /\ pc = "stripB"
    /\ route2' = strip_return(route2)
    /\ pc' = "cycle"
    /\ UNCHANGED <<df, todo, truck, rows, depot, manha, diurno, ordered_manha,
                   last_loc, coords_m, dm, route1, ordered_diurno, coords_d,
                   dd, cycle, distances, nearest_pos, rotated, ordered, mapa,
                   fn_vars>>

\* line 111
Cycle ==
    /\ pc = "cycle"
    /\ cycle' = positive(route2)
    /\ pc' = "nearest"
    /\ UNCHANGED <<df, todo, truck, rows, depot, manha, diurno, ordered_manha,
                   last_loc, coords_m, dm, route1, ordered_diurno, coords_d,
                   dd, route2, distances, nearest_pos, rotated, ordered, mapa,
                   fn_vars>>

\* lines 113-114: coords_d[i] out of range raises IndexError, min([]) raises
\* ValueError
Nearest ==
    /\ pc = "nearest"
    /\ IF \E k \in 1..Len(cycle) : ~ InRange(coords_d, cycle[k])
       THEN /\ pc' = "IndexError"
            /\ UNCHANGED <<distances, nearest_pos>>
       ELSE /\ distances' = [k \in 1..Len(cycle) |->
                                haversine_distance(last_loc, At(coords_d, cycle[k]))]
            /\ IF distances' = <<>>
               THEN /\ pc' = "ValueError"
                    /\ UNCHANGED nearest_pos
               ELSE /\ nearest_pos' = nearest(distances')
                    /\ pc' = "rotate"
    /\ UNCHANGED <<df, todo, truck, rows, depot, manha, diurno, ordered_manha,
                   last_loc, coords_m, dm, route1, ordered_diurno, coords_d,
                   dd, route2, cycle, rotated, ordered, mapa, fn_vars>>

\* line 115
Rotate ==
    /\ pc = "rotate"
    /\ rotated' = rotate(cycle, nearest_pos)
    /\ pc' = "mapB"
    /\ UNCHANGED <<df, todo, truck, rows, depot, manha, diurno, ordered_manha,
                   last_loc, coords_m, dm, route1, ordered_diurno, coords_d,
                   dd, route2, cycle, distances, nearest_pos, ordered, mapa,
                   fn_vars>>

\* line 116
MapB ==
    /\ pc = "mapB"
    /\ IF map_in_range(rotated, diurno)
       THEN /\ ordered_diurno' = map_stops(rotated, diurno)
            /\ pc' = "combine"
       ELSE /\ pc' = "IndexError"
            /\ UNCHANGED ordered_diurno
    /\ UNCHANGED <<df, todo, truck, rows, depot, manha, diurno, ordered_manha,
                   last_loc, coords_m, dm, route1, coords_d, dd, route2,
                   cycle, distances, nearest_pos, rotated, ordered, mapa,
                   fn_vars>>

\* line 119
Combine ==
    /\ pc = "combine"
    /\ ordered' = ordered_manha \o ordered_diurno
    /\ pc' = "plot"
    /\ UNCHANGED <<df, todo, truck, rows, depot, manha, diurno, ordered_manha,
                   last_loc, coords_m, dm, route1, ordered_diurno, coords_d,
                   dd, route2, cycle, distances, nearest_pos, rotated, mapa,
                   fn_vars>>

\* lines 122-146: the truck's layer, one numbered marker per stop of ordered
Plot ==
    /\ pc = "plot"
    /\ mapa' = Append(mapa, [name |-> truck, markers |-> ordered])
    /\ pc' = "loop"
    /\ UNCHANGED <<df, todo, loop_vars, fn_vars>>

\* lines 148-174: after the last group the map is saved
Save ==
    /\ pc = "loop" /\ todo = <<>>
    /\ pc' = "saved"
    /\ UNCHANGED <<df, todo, loop_vars, mapa, fn_vars>>

Next ==
    \/ LoopNext \/ Partition \/ PhaseA \/ SolveA \/ StripA \/ MapA
    \/ HandOff \/ PhaseB \/ SolveB \/ StripB \/ Cycle \/ Nearest \/ Rotate
    \/ MapB \/ Combine \/ Plot \/ Save

Spec == Init /\ [][Next]_vars

\* ------------------------------------------- the library functions on their own
\* build_distance_matrix and solve_tsp called directly: a coordinate list of
\* any length up to MaxCoords, then the matrix built from it
InitFn ==
    /\ fn_coords \in UNION {[1..n -> Points] : n \in 0..MaxCoords}
    /\ fn_matrix = <<>> /\ fn_raised = "none" /\ fn_route = <<>>
    /\ fn_pc = "call"
    /\ df = <<>> /\ todo = <<>> /\ Unbound /\ mapa = <<>> /\ pc = "off"

\* lines 16-17: a comprehension; nothing in it raises
CallBuild ==
    /\ fn_pc = "call"
    /\ fn_matrix' = build_distance_matrix(fn_coords)
    /\ fn_raised' = "none"
    /\ fn_pc' = "built"
    /\ UNCHANGED <<df, todo, loop_vars, mapa, pc, fn_coords, fn_route>>

\* lines 20-46 on a matrix of at least one node
CallSolve ==
    /\ fn_pc = "built" /\ Len(fn_matrix) >= 1
    /\ fn_route' \in solve_tsp(fn_matrix)
    /\ fn_pc' = "solved"
    /\ UNCHANGED <<df, todo, loop_vars, mapa, pc, fn_coords, fn_matrix, fn_raised>>

NextFn == CallBuild \/ CallSolve

SpecFn == InitFn /\ [][NextFn]_vars

\* ------------------------------------------------- one truck on its own
\* lines 84-119 as a function of one group's rows: every route the loop body
\* can produce for these rows, over the tours solve_tsp may return
sequence_alone(stops) ==
    LET dep == At(stops, 0).CASA
        m == manha_of(stops)
        d == diurno_of(stops, m)
        cm == <<dep>> \o coords_of(m)
        phase_a ==
            IF m = <<>> THEN {[om |-> <<>>, loc |-> dep]}
            ELSE {[om |-> map_stops(positive(strip_return(t)), m),
                   loc |-> At(cm, At(strip_return(t), -1))] :
                       t \in solve_tsp(build_distance_matrix(cm))}
        phase_b(loc) ==
            IF d = <<>> THEN {<<>>}
            ELSE LET cd == <<loc>> \o coords_of(d)
                     cyc(t) == positive(strip_return(t))
                     dist(t) == [k \in 1..Len(cyc(t)) |->
                                   haversine_distance(loc, At(cd, cyc(t)[k]))]
                 IN  {map_stops(rotate(cyc(t), nearest(dist(t))), d) :
                         t \in solve_tsp(build_distance_matrix(cd))}
    IN  UNION {{a.om \o b : b \in phase_b(a.loc)} : a \in phase_a}

\* ------------------------------------------------------------- properties
\* the labels of the input that are the priority tag up to case and blanks
PriorityTagged(r) ==
    /\ r.TURNO.kind = "str"
    /\ r.TURNO.chars \in {<<"M", "A", "N", "H", "A">>, <<"m", "a", "n", "h", "a">>}

\* number of positions of list holding the value v
Count(list, v) == Cardinality({k \in 1..Len(list) : list[k] = v})

IsPermutationOf(route, stops) ==
    /\ Len(route) = Len(stops)
    /\ \A k \in 1..Len(stops) : Count(route, stops[k]) = Count(stops, stops[k])
    /\ \A k \in 1..Len(route) : \E j \in 1..Len(stops) : route[k] = stops[j]

\* C1: the final route ordered_manha + ordered_diurno of every truck holds
\* each of the truck's rows exactly as often as the group does, nothing
\* else, and node 0 (depot or hand-off anchor) is never mapped to a stop.
C1_RouteIsPermutation ==
    /\ pc = "plot" => IsPermutationOf(ordered, rows)
    /\ \A e \in 1..Len(mapa) :
          IsPermutationOf(mapa[e].markers, group_rows(df, mapa[e].name))
    /\ pc \in {"mapB", "combine", "plot"} =>
          \A k \in 1..Len(rotated) : rotated[k] # 0

C1_Witness ==
    /\ pc = "plot" /\ Len(ordered_manha) = 2 /\ Len(ordered_diurno) = 3
    /\ At(route1, -1) # 0 /\ route2 # range(4)

C3_Original ==
    fn_pc = "solved" =>
        /\ Len(fn_route) = Len(fn_matrix)
        /\ fn_route[1] = 0
        /\ \A v \in 0..(Len(fn_matrix) - 1) : Count(fn_route, v) = 1

\* C3 amended: the returned sequence begins at 0, holds only nodes of
\* 0 .. n-1 and every node of 1 .. n-1 exactly once; node 0 occurs once (the
\* natural order of the fallback) or twice, the second time as the last
\* element (the closed tour of a solution); for n = 1 it is [0, 0] or [0].
C3_ClosedTourOrNaturalOrder ==
    fn_pc = "solved" =>
        LET n == Len(fn_matrix)
        IN  /\ fn_route[1] = 0
            /\ \A k \in 1..Len(fn_route) : fn_route[k] \in 0..(n - 1)
            /\ \A v \in 1..(n - 1) : Count(fn_route, v) = 1
            /\ \/ Count(fn_route, 0) = 1 /\ \A k \in 1..n : fn_route[k] = k - 1
               \/ Count(fn_route, 0) = 2 /\ fn_route[Len(fn_route)] = 0
            /\ n = 1 => fn_route \in {<<0, 0>>, <<0>>}

C3_Witness == fn_pc = "solved" /\ fn_route = <<0, 2, 1, 0>>

\* C4: the rotated sequence is the cycle started at the first position whose
\* node is nearest to the hand-off location: it begins at that node, no
\* earlier position of the cycle is as near, and position j of the rotated
\* sequence is position k + j of the cycle, counted cyclically.
C4_RotationAtFirstNearest ==
    pc = "mapB" =>
        LET n == Len(cycle)
            d(j) == haversine_distance(last_loc, coord_of(diurno[cycle[j]]))
            k == nearest_pos
        IN  /\ n >= 1 /\ k \in 0..(n - 1)
            /\ \A j \in 1..n : d(k + 1) <= d(j)
            /\ \A j \in 1..k : d(j) > d(k + 1)
            /\ Len(rotated) = n
            /\ \A j \in 1..n : rotated[j] = cycle[((k + j - 1) % n) + 1]

C4_Witness ==
    /\ pc = "mapB" /\ Len(cycle) = 3 /\ nearest_pos = 1
    /\ distances[2] = distances[3]

\* C6: build_distance_matrix on an empty list raises InvalidInput and returns
\* no matrix; on a list of length n it returns an n x n matrix.
C6_EmptyInputIsAnError ==
    fn_pc = "built" =>
        IF fn_coords = <<>>
        THEN fn_raised = "InvalidInput"
        ELSE /\ fn_raised = "none"
             /\ Len(fn_matrix) = Len(fn_coords)
             /\ \A a \in 1..Len(fn_matrix) : Len(fn_matrix[a]) = Len(fn_coords)

C9_HandOffLocation ==
    LET expected == IF manha # <<>>
                    THEN coord_of(ordered_manha[Len(ordered_manha)])
                    ELSE depot
    IN  /\ pc \in {"phaseB", "solveB", "stripB", "cycle", "nearest", "rotate", "mapB"} =>
              /\ Len(ordered_manha) = Len(manha)
              /\ last_loc = expected
        /\ pc \in {"stripB", "cycle", "nearest", "rotate", "mapB"} =>
              At(coords_d, 0) = expected

C9_Witness ==
    /\ pc = "stripB" /\ Len(ordered_manha) = 2
    /\ last_loc = coord_of(ordered_manha[2]) /\ last_loc # depot

\* C10: no list access of lines 93-116 is out of range: the stripped tour is
\* not empty when route1[-1] is read, every node i > 0 of a tour is at most
\* the number of stops of its phase, and the cycle is not empty when the
\* minimum of the distances is taken.
C10_NoInvalidAccess ==
    /\ pc \notin {"IndexError", "ValueError"}
    /\ pc \in {"mapA", "handoff"} =>
          /\ route1 # <<>>
          /\ \A k \in 1..Len(route1) : route1[k] \in 0..Len(manha)
    /\ pc \in {"cycle", "nearest"} =>
          \A k \in 1..Len(route2) : route2[k] \in 0..Len(diurno)
    /\ pc \in {"nearest", "rotate", "mapB"} =>
          /\ cycle # <<>>
          /\ \A k \in 1..Len(cycle) : cycle[k] \in 1..Len(diurno)

C10_Witness ==
    /\ pc = "mapB" /\ manha # <<>>
    /\ route1 = range(Len(manha) + 1)
    /\ Len(route2) = Len(diurno) + 1 /\ Len(diurno) >= 2
    /\ route2 # range(Len(diurno) + 1)

=============================================================================
